---------------------------- MODULE Spec2Model ----------------------------
(***************************************************************************)
(* A model of the frame transformation engine of Hardhiky/flam:           *)
(*   app/src/main/cpp/opencv_processor.h    (class, ImageUtils)           *)
(*   app/src/main/cpp/opencv_processor.cpp  (OpenCVProcessor)             *)
(*   app/src/main/cpp/native-lib.cpp        (the JNI boundary)            *)
(*                                                                         *)
(* Two callers are modelled.  With layer = "engine" the caller owns an     *)
(* OpenCVProcessor object (proc) and calls its public methods.  With      *)
(* layer = "jni" the caller goes through the JNI functions, which act on   *)
(* the process-wide pointer g_processor.  Both use the same operators for  *)
(* the methods of the class.  A third specification (SpecPixel,           *)
(* layer = "pixel") puts single frames through the fallback grayscale     *)
(* path of processFrame, one frame per behaviour.                          *)
(*                                                                         *)
(* TLC's integers are 32 bits wide, so 32-bit products and the float       *)
(* arithmetic of rgbaToGray are computed on 16-bit limbs.                  *)
(***************************************************************************)
EXTENDS Integers, Sequences, FiniteSets, TLC

VARIABLES
    layer,        \* "engine", "jni", or the function under study
    proc,         \* the caller-owned OpenCVProcessor (layer "engine")
    g_processor,  \* native-lib.cpp:15, <<>> for nullptr, <<e>> for an engine
    alive,        \* FALSE once the process has been aborted
    hist,         \* ghost: elapsed times of the processFrame calls of the
                  \*        current engine object that returned success
    lastAct,      \* ghost: outcome of the last backend activation attempt
    released,     \* ghost: a release happened and no initialize since
    call,         \* the last call: its arguments, result and state before
    px,           \* layers "pixel", "edge", "sobel": the frame given to the
                  \*        function under study, and its result
    yuv,          \* layer "yuv": the planes given to yuv420ToRgba, its result
    retired       \* ghost: frames counted by the engine object that the
                  \*        latest releaseOpenCV destroyed

vars == <<layer, proc, g_processor, alive, hist, lastAct, released, call, px,
          yuv, retired>>

----------------------------------------------------------------------------
(* Bounds of the model *)

\* successful frames recorded per engine object
MaxFrames == 2

----------------------------------------------------------------------------
(* 32-bit integer arithmetic *)

INT_MAX == 2147483647

Abs(a) == IF a < 0 THEN -a ELSE a

RECURSIVE Pow2(_)
Pow2(k) == IF k = 0 THEN 1 ELSE 2 * Pow2(k - 1)

\* (x * y) % 2^16 for x, y in 0..65535, without passing 2^31 on the way
MulMod16(x, y) ==
    (x * (y % 256) + ((x * (y \div 256)) % 256) * 256) % 65536

\* a * b reduced to a signed 32-bit value, as two's complement hardware does
Mul32(a, b) ==
    LET ah == (a \div 65536) % 65536
        al == a % 65536
        bh == (b \div 65536) % 65536
        bl == b % 65536
        p1 == al * (bl \div 256)
        p0 == al * (bl % 256)
        mid == (p1 % 256) * 256 + p0
        lo == mid % 65536
        c  == (p1 \div 256) + (mid \div 65536)
        hi == (c + MulMod16(ah, bl) + MulMod16(al, bh)) % 65536
    IN  IF hi >= 32768 THEN (hi - 65536) * 65536 + lo ELSE hi * 65536 + lo

\* the exact product a * b does not fit a signed 32-bit int
MulOverflows(a, b) ==
    /\ a # 0
    /\ b # 0
    /\ LET x == Abs(a)
           y == Abs(b)
       IN  IF (a < 0) = (b < 0)
           THEN x > INT_MAX \div y
           ELSE /\ x > INT_MAX \div y
                /\ ~ (INT_MAX % y = y - 1 /\ x = INT_MAX \div y + 1)

----------------------------------------------------------------------------
(* IEEE-754 binary32 arithmetic, as far as rgbaToGray needs it.            *)
(* A value v >= 0 that is a multiple of 2^-27 and below 2^8 is the pair    *)
(* <<H, L>> with v * 2^27 = H * 2^16 + L and 0 <= L < 2^16.                *)

\* 0.299f = 10032775 * 2^-25, in units of 2^-27
W_R == 40131100
\* 0.587f = 9848226 * 2^-24, in units of 2^-27
W_G == 78785808
\* 0.114f = 15300821 * 2^-27, in units of 2^-27
W_B == 15300821

RECURSIVE BitLen(_)
BitLen(n) == IF n = 0 THEN 0 ELSE 1 + BitLen(n \div 2)

Norm(H, L) == <<H + (L \div 65536), L % 65536>>

\* the exact product of the float constant k (units of 2^-27) and the byte c
FProd(k, c) == Norm((k \div 65536) * c, (k % 65536) * c)

FAdd(a, b) == Norm(a[1] + b[1], a[2] + b[2])

\* round to 24 significant bits, ties to even (the rounding of every
\* binary32 operation)
Round24(v) ==
    LET d == IF v[1] = 0 THEN 0 ELSE BitLen(v[1]) + 16 - 24
    IN  IF d <= 0 THEN v
        ELSE LET unit == Pow2(d)
                 low  == v[2] % unit
                 odd  == (v[2] \div unit) % 2 = 1
                 up   == 2 * low > unit \/ (2 * low = unit /\ odd)
             IN  Norm(v[1], v[2] - low + (IF up THEN unit ELSE 0))

\* static_cast<uint8_t>(float): truncation; the value is below 256
FTrunc(v) == v[1] \div 2048

\* How the build evaluates a*r + b*g + c*b in float.  "plain": every product
\* and sum rounded (no contraction).  "fmaL", "fmaR": the compiler contracted
\* products into fused multiply-adds (-ffp-contract=on), fusing the left or
\* the right product of the inner sum, and the product of the outer sum.
FpModes == {"plain", "fmaL", "fmaR"}

\* ImageUtils::rgbaToGray, opencv_processor.h:165-167
rgbaToGray(fp, r, g, b) ==
    LET inner == CASE fp = "plain" -> Round24(FAdd(Round24(FProd(W_R, r)), Round24(FProd(W_G, g))))
                   [] fp = "fmaL"  -> Round24(FAdd(FProd(W_R, r), Round24(FProd(W_G, g))))
                   [] fp = "fmaR"  -> Round24(FAdd(Round24(FProd(W_R, r)), FProd(W_G, g)))
        outer == IF fp = "plain"
                 THEN Round24(FAdd(inner, Round24(FProd(W_B, b))))
                 ELSE Round24(FAdd(inner, FProd(W_B, b)))
    IN  FTrunc(outer)

----------------------------------------------------------------------------
(* Buffers.  A pointer to bytes is [null, bytes]; bytes is the memory the  *)
(* caller made available behind it.  Sequences are 1-based: the byte the   *)
(* code calls data[j] is bytes[j + 1].                                     *)

NULLPTR == [null |-> TRUE, bytes |-> <<>>]

Ptr(b) == [null |-> FALSE, bytes |-> b]

\* the enumerators of ProcessingMode, opencv_processor.h:17-21
MODE_RAW == 0
MODE_EDGE == 1
MODE_GRAYSCALE == 2

\* the result of a transformation: success, the output memory afterwards,
\* the path that ran, and whether it touched memory outside a buffer or
\* could not allocate (the call then does not return)
Done(o, pth) == [ok |-> TRUE, out |-> o, path |-> pth, fault |-> FALSE]

Fault(o) == [ok |-> FALSE, out |-> o, path |-> "fault", fault |-> TRUE]

\* width * height as the code computes it (int)
PixelCount(width, height) == Mul32(width, height)

\* width * height * 4 as the code computes it (int)
ByteCount(width, height) == Mul32(Mul32(width, height), 4)

\* the exact value of width * height * 4 does not fit an int
ByteCountOverflows(width, height) ==
    MulOverflows(width, height) \/ MulOverflows(Mul32(width, height), 4)

\* What a signed overflow in `width * height * 4` does: the product wraps
\* (two's complement), or the build traps on it (-ftrapv, a sanitizer).
OverflowOutcomes == {"wrap", "trap"}

\* the first n pixels fit the memory b
PixelsFit(n, b) == n <= Len(b) \div 4

\* OpenCVProcessor::copyRawFrame, opencv_processor.cpp:217-226
\* memcpy of a wrapped size of 0 copies nothing; of a size wrapped below 0
\* (a huge size_t) or larger than a buffer, it leaves the buffers
copyRawFrame(ovf, inputData, width, height, outputData) ==
    LET dataSize == ByteCount(width, height)   \* converted to size_t
    IN  IF \/ ByteCountOverflows(width, height) /\ ovf = "trap"
           \/ dataSize < 0
           \/ dataSize > Len(inputData) \/ dataSize > Len(outputData)
        THEN Fault(outputData)
        ELSE Done([j \in 1..Len(outputData) |->
                      IF j <= dataSize THEN inputData[j] ELSE outputData[j]], "copy")

\* the loop of lines 305-312 and 327-338: gray[i] into R, G, B and 255
\* into alpha of the first n pixels
ExpandGray(gray, n, outputData) ==
    [j \in 1..Len(outputData) |->
        IF j <= 4 * n
        THEN IF (j - 1) % 4 = 3 THEN 255 ELSE gray[((j - 1) \div 4) + 1]
        ELSE outputData[j]]

\* the loop of lines 291-298 and 327-333: the luminance of the first n pixels
GrayOf(fp, inputData, n) ==
    [i \in 1..n |-> rgbaToGray(fp, inputData[4 * (i - 1) + 1],
                                   inputData[4 * (i - 1) + 2],
                                   inputData[4 * (i - 1) + 3])]

\* OpenCVProcessor::convertToGrayscaleFallback, opencv_processor.cpp:321-340
\* (a wrapped width * height that is not positive ends the loop at once)
convertToGrayscaleFallback(ovf, fp, inputData, width, height, outputData) ==
    LET n == PixelCount(width, height)
    IN  IF MulOverflows(width, height) /\ ovf = "trap" THEN Fault(outputData)
        ELSE IF n <= 0 THEN Done(outputData, "fallback")
        ELSE IF ~ PixelsFit(n, inputData) \/ ~ PixelsFit(n, outputData)
        THEN Fault(outputData)
        ELSE Done(ExpandGray(GrayOf(fp, inputData, n), n, outputData), "fallback")

\* const int sobelX[3][3], opencv_processor.cpp:351-355
sobelX == << <<-1, 0, 1>>, <<-2, 0, 2>>, <<-1, 0, 1>> >>

\* const int sobelY[3][3], opencv_processor.cpp:357-361
sobelY == << <<-1, -2, -1>>, <<0, 0, 0>>, <<1, 2, 1>> >>

\* const uint8_t threshold, opencv_processor.cpp:390
threshold == 50

\* static_cast<int>(std::sqrt(v)) followed by std::min(255, .): sqrt of an
\* int below 2^53 is exact enough that the cast yields the floor of the root
Magnitude(v) ==
    IF v >= 255 * 255 THEN 255
    ELSE CHOOSE k \in 0..254 : k * k <= v /\ (k + 1) * (k + 1) > v

\* the convolution of lines 369-379 at pixel (x, y), 0-based
SobelAt(kernel, grayscale, width, x, y) ==
    LET Term(ky, kx) == grayscale[(y + ky) * width + (x + kx) + 1]
                        * kernel[ky + 2][kx + 2]
    IN  Term(-1, -1) + Term(-1, 0) + Term(-1, 1)
      + Term(0, -1)  + Term(0, 0)  + Term(0, 1)
      + Term(1, -1)  + Term(1, 0)  + Term(1, 1)

\* ImageUtils::simpleEdgeDetection whose loop over x stops one column
\* early (x < width - 2): a plausible slip
simpleEdgeDetection_shortloop(grayscale, width, height) ==
    [i \in 1..(width * height) |->
        LET x == (i - 1) % width
            y == (i - 1) \div width
        IN  IF 1 <= x /\ x < width - 2 /\ 1 <= y /\ y < height - 1
            THEN IF Magnitude(SobelAt(sobelX, grayscale, width, x, y)
                                  * SobelAt(sobelX, grayscale, width, x, y)
                              + SobelAt(sobelY, grayscale, width, x, y)
                                  * SobelAt(sobelY, grayscale, width, x, y)) > threshold
                 THEN 255 ELSE 0
            ELSE 0]

\* ImageUtils::simpleEdgeDetection that leaves out the threshold pass and
\* hands back the gradient magnitudes: a plausible slip
simpleEdgeDetection_nothreshold(grayscale, width, height) ==
    [i \in 1..(width * height) |->
        LET x == (i - 1) % width
            y == (i - 1) \div width
        IN  IF 1 <= x /\ x < width - 1 /\ 1 <= y /\ y < height - 1
            THEN Magnitude(SobelAt(sobelX, grayscale, width, x, y)
                               * SobelAt(sobelX, grayscale, width, x, y)
                           + SobelAt(sobelY, grayscale, width, x, y)
                               * SobelAt(sobelY, grayscale, width, x, y))
            ELSE 0]

\* ImageUtils::simpleEdgeDetection, opencv_processor.cpp:344-394
\* (the caller passes buffers of width * height bytes)
simpleEdgeDetection(grayscale, width, height) ==
    LET gradient == [i \in 1..(width * height) |->
            LET x == (i - 1) % width
                y == (i - 1) \div width
            IN  IF 1 <= x /\ x < width - 1 /\ 1 <= y /\ y < height - 1
                THEN LET gx == SobelAt(sobelX, grayscale, width, x, y)
                         gy == SobelAt(sobelY, grayscale, width, x, y)
                     IN  Magnitude(gx * gx + gy * gy)
                ELSE 0]
    IN  [i \in 1..(width * height) |-> IF gradient[i] > threshold THEN 255 ELSE 0]

\* OpenCVProcessor::applyCannyEdgeFallback, opencv_processor.cpp:281-318
\* new uint8_t[n] with n < 0 throws; with a wrapped width * height the
\* loops leave the buffers; a build that traps on the overflow stops too
applyCannyEdgeFallback(fp, inputData, width, height, outputData) ==
    LET n == PixelCount(width, height)
    IN  IF \/ n < 0
           \/ MulOverflows(width, height)
           \/ ~ PixelsFit(n, inputData)
           \/ ~ PixelsFit(n, outputData)
        THEN Fault(outputData)
        ELSE Done(ExpandGray(simpleEdgeDetection(GrayOf(fp, inputData, n), width, height),
                             n, outputData), "fallback")

\* What the accelerated backend can do in one call: finish, or throw a
\* std::exception.  It exists only in a build with HAVE_OPENCV.
BackendRuns == {"ok", "throws"}

\* The single-channel map a finished backend call hands back is opaque to
\* this code; the model lets it be uniform, of one of these values.
BackendValues == {90, 255}

\* lines 151-163 and 192-204: the backend's map expanded to RGBA and copied
\* with memcpy(outputData, outputMat.data, width * height * 4)
AcceleratedCopy(v, width, height, outputData) ==
    LET dataSize == ByteCount(width, height)
    IN  IF dataSize < 0 \/ dataSize > Len(outputData) \/ MulOverflows(width, height)
        THEN Fault(outputData)
        ELSE Done([j \in 1..Len(outputData) |->
                      IF j <= dataSize
                      THEN IF (j - 1) % 4 = 3 THEN 255 ELSE v
                      ELSE outputData[j]], "accelerated")

\* OpenCVProcessor::applyCannyEdge without the catch: a backend exception
\* leaves the frame unprocessed and the call fails
applyCannyEdge_nocatch(e, bk, bv, fp, inputData, width, height, outputData) ==
    IF e.mOpenCVAvailable
    THEN IF bk = "ok"
         THEN AcceleratedCopy(bv, width, height, outputData)
         ELSE [ok |-> FALSE, out |-> outputData, path |-> "failed", fault |-> FALSE]
    ELSE applyCannyEdgeFallback(fp, inputData, width, height, outputData)

\* OpenCVProcessor::applyCannyEdge, opencv_processor.cpp:127-173
applyCannyEdge(e, bk, bv, fp, inputData, width, height, outputData) ==
    IF e.mOpenCVAvailable
    THEN IF bk = "ok"
         THEN AcceleratedCopy(bv, width, height, outputData)
         ELSE applyCannyEdgeFallback(fp, inputData, width, height, outputData)
    ELSE applyCannyEdgeFallback(fp, inputData, width, height, outputData)

\* OpenCVProcessor::convertToGrayscale, opencv_processor.cpp:176-214
convertToGrayscale(e, bk, bv, fp, ovf, inputData, width, height, outputData) ==
    IF e.mOpenCVAvailable
    THEN IF bk = "ok"
         THEN AcceleratedCopy(bv, width, height, outputData)
         ELSE convertToGrayscaleFallback(ovf, fp, inputData, width, height, outputData)
    ELSE convertToGrayscaleFallback(ovf, fp, inputData, width, height, outputData)

----------------------------------------------------------------------------
(* class OpenCVProcessor.  An object is the record of its data members,   *)
(* opencv_processor.h:127-138.  The thresholds are doubles; the model      *)
(* gives them whole values.                                                *)

\* OpenCVProcessor::OpenCVProcessor, opencv_processor.cpp:15-26
OpenCVProcessor ==
    [mInitialized           |-> FALSE,
     mOpenCVAvailable       |-> FALSE,
     mCannyLowThreshold     |-> 50,
     mCannyHighThreshold    |-> 150,
     mCannyApertureSize     |-> 3,
     mTotalFramesProcessed  |-> 0,
     mTotalProcessingTimeMs |-> 0,
     mLastProcessingTimeMs  |-> 0]

\* What activating the backend in initialize() can come to: "absent" is a
\* build without HAVE_OPENCV (lines 56-59), "empty" a test matrix that came
\* back empty (45-47), "throws" an exception (52-55), "ok" success (48-51).
BackendStarts == {"absent", "empty", "throws", "ok"}

\* OpenCVProcessor::initialize that keeps the flag of an earlier activation
\* when this one fails: a plausible slip
initialize_keepflag(e, backend) ==
    IF e.mInitialized
    THEN [eng |-> e, ret |-> TRUE]
    ELSE [eng |-> [e EXCEPT !.mOpenCVAvailable = (backend = "ok") \/ @,
                            !.mInitialized = TRUE],
          ret |-> TRUE]

\* OpenCVProcessor::initialize that runs its body again when already
\* initialized and starts the statistics afresh: a plausible slip
initialize_again(e, backend) ==
    [eng |-> [e EXCEPT !.mOpenCVAvailable = (backend = "ok"),
                       !.mInitialized = TRUE,
                       !.mTotalFramesProcessed = 0,
                       !.mTotalProcessingTimeMs = 0,
                       !.mLastProcessingTimeMs = 0],
     ret |-> TRUE]

\* OpenCVProcessor::initialize, opencv_processor.cpp:35-63
initialize(e, backend) ==
    IF e.mInitialized
    THEN [eng |-> e, ret |-> TRUE]
    ELSE [eng |-> [e EXCEPT !.mOpenCVAvailable = (backend = "ok"),
                            !.mInitialized = TRUE],
          ret |-> TRUE]

\* OpenCVProcessor::isOpenCVAvailable, opencv_processor.cpp:66-68
isOpenCVAvailable(e) == e.mOpenCVAvailable

\* OpenCVProcessor::updateStatistics that forgets the last time: a
\* plausible slip
updateStatistics_nolast(e, processingTimeMs) ==
    [e EXCEPT !.mTotalFramesProcessed = @ + 1,
              !.mTotalProcessingTimeMs = @ + processingTimeMs]

\* OpenCVProcessor::updateStatistics, opencv_processor.cpp:269-278
\* (the counters are 64 bits wide; the model stays far below their range)
updateStatistics(e, processingTimeMs) ==
    [e EXCEPT !.mTotalFramesProcessed = @ + 1,
              !.mTotalProcessingTimeMs = @ + processingTimeMs,
              !.mLastProcessingTimeMs = processingTimeMs]

\* ProcessingMetrics metrics = {0, width, height, mode, false}, line 78
Metrics0(width, height, mode) ==
    [processingTimeMs |-> 0, width |-> width, height |-> height,
     mode |-> mode, success |-> FALSE]

\* the switch of lines 98-115
Dispatch(e, bk, bv, fp, ovf, inputData, width, height, mode, outputData) ==
    CASE mode = MODE_RAW       -> copyRawFrame(ovf, inputData, width, height, outputData)
      [] mode = MODE_EDGE      -> applyCannyEdge(e, bk, bv, fp, inputData, width, height, outputData)
      [] mode = MODE_GRAYSCALE -> convertToGrayscale(e, bk, bv, fp, ovf, inputData, width, height, outputData)
      [] OTHER                 -> copyRawFrame(ovf, inputData, width, height, outputData)

\* The callers' inputs

\* mode values a caller passes: the three enumerators and one other value
Modes == {MODE_RAW, MODE_EDGE, MODE_GRAYSCALE, 3}

\* threshold pairs given to setCannyThresholds
ThresholdPairs == {<<10, 10>>, <<50, 150>>}

\* byte j (0-based) of a test frame of the given width:
\*   "gray128"  every pixel (128,128,128,255)
\*   "edge"     black columns left, white columns right, alpha 255
\*   "mix"      pixels (8,80,32,7), (255,0,0,0), (13,233,3,200) in turn
PatByte(pat, width, j) ==
    LET i == j \div 4
        c == j % 4
        x == i % (IF width > 0 THEN width ELSE 1)
        mix == << <<8, 80, 32, 7>>, <<255, 0, 0, 0>>, <<13, 233, 3, 200>> >>
    IN  CASE pat = "gray128" -> IF c = 3 THEN 255 ELSE 128
          [] pat = "edge"    -> IF c = 3 THEN 255 ELSE IF 2 * x < width THEN 0 ELSE 255
          [] pat = "mix"     -> mix[(i % 3) + 1][c + 1]

InputBytes(pat, width, len) == [j \in 1..len |-> PatByte(pat, width, j - 1)]

\* an output buffer as the caller hands it over: every byte 170
FreshBytes(len) == [j \in 1..len |-> 170]

\* frames the engine's caller passes, with buffers as large as the contract
\* asks (the output buffer one byte larger): width, height, pattern
ValidFrames == {<<1, 1, "mix">>, <<3, 3, "edge">>, <<5, 4, "edge">>}

\* width and height that violate the contract
BadDims == {<<0, 2>>, <<2, 0>>, <<-1, 2>>, <<2, -1>>}

\* a frame of 2^30 pixels, in buffers of 2^32 bytes: of these the model
\* follows the first 16 bytes only
HugeDims == <<32768, 32768>>

Request(w, h, mode, inp, out) ==
    [w |-> w, h |-> h, mode |-> mode, inp |-> inp, out |-> out]

EngineRequests ==
    {Request(f[1], f[2], m, Ptr(InputBytes(f[3], f[1], f[1] * f[2] * 4)),
             Ptr(FreshBytes(f[1] * f[2] * 4 + 1))) :
        f \in ValidFrames, m \in Modes}
    \cup {Request(d[1], d[2], MODE_RAW, Ptr(InputBytes("mix", 2, 16)), Ptr(FreshBytes(17))) :
            d \in BadDims}
    \cup {Request(2, 2, MODE_RAW, NULLPTR, Ptr(FreshBytes(17))),
          Request(2, 2, MODE_EDGE, Ptr(InputBytes("mix", 2, 16)), NULLPTR)}
    \cup {Request(HugeDims[1], HugeDims[2], m, Ptr(InputBytes("mix", 2, 16)),
                  Ptr(FreshBytes(16))) : m \in {MODE_RAW, 3}}

\* the arrays and dimensions the caller of the JNI functions passes
\* dimensions whose product is not positive
JBadDims == {<<0, 2>>, <<-1, 1>>}

\* width * height * 4 = 2^32 (wraps to 0, 2^30 pixels); = 2147580964 (wraps
\* below 0); width * height = 2^32 (wraps to 0 pixels)
JBigDims == {<<65536, 16384>>, <<23171, 23171>>, <<65536, 65536>>}

\* lengths of the input and the output array passed with a 2x2 frame: the
\* input too short, the output too short, both long enough
JArrays == {<<4, 16>>, <<16, 4>>, <<16, 16>>}

JNIRequests ==
    {Request(2, 2, m, Ptr(InputBytes("mix", 2, l[1])), Ptr(FreshBytes(l[2]))) :
        m \in {MODE_RAW, MODE_GRAYSCALE}, l \in JArrays}
    \cup {Request(1, 1, m, Ptr(InputBytes("mix", 1, 4)), Ptr(FreshBytes(4))) : m \in Modes}
    \cup {Request(d[1], d[2], MODE_RAW, Ptr(InputBytes("mix", 2, 16)), Ptr(FreshBytes(16))) :
            d \in JBadDims}
    \cup {Request(2, 2, MODE_RAW, NULLPTR, Ptr(FreshBytes(16))),
          Request(2, 2, MODE_RAW, Ptr(InputBytes("mix", 2, 16)), NULLPTR)}
    \cup {Request(d[1], d[2], m, Ptr(InputBytes("mix", 2, 16)), Ptr(FreshBytes(16))) :
            d \in JBigDims, m \in Modes}

\* every frame some caller passes
AllFrames == {[w |-> q.w, h |-> q.h, mode |-> q.mode, inp |-> q.inp.bytes, out |-> q.out.bytes] :
                 q \in {x \in EngineRequests \cup JNIRequests : ~ x.inp.null /\ ~ x.out.null}}

\* the switch of lines 98-115 on every frame some caller passes, worked out
\* once: Dispatch depends on the object only through mOpenCVAvailable
DispatchTable ==
    [avail \in BOOLEAN, bk \in BackendRuns, bv \in BackendValues, fp \in FpModes,
     ovf \in OverflowOutcomes, f \in AllFrames |->
        Dispatch([mOpenCVAvailable |-> avail], bk, bv, fp, ovf,
                 f.inp, f.w, f.h, f.mode, f.out)]

\* the switch of lines 98-115, looked up where it was worked out before
Switch(e, bk, bv, fp, ovf, inputData, width, height, mode, outputData) ==
    LET f == [w |-> width, h |-> height, mode |-> mode, inp |-> inputData, out |-> outputData]
    IN  IF f \in AllFrames
        THEN DispatchTable[e.mOpenCVAvailable, bk, bv, fp, ovf, f]
        ELSE Dispatch(e, bk, bv, fp, ovf, inputData, width, height, mode, outputData)

\* lines 117-123: the result r of the switch becomes the metrics, and the
\* frame is counted
Measured(e, r, width, height, mode, elapsed) ==
    IF r.fault
    THEN [eng |-> e, metrics |-> Metrics0(width, height, mode),
          out |-> r.out, path |-> r.path, fault |-> TRUE]
    ELSE [eng |-> updateStatistics(e, elapsed),
          metrics |-> [Metrics0(width, height, mode) EXCEPT
                          !.processingTimeMs = elapsed, !.success = r.ok],
          out |-> r.out, path |-> r.path, fault |-> FALSE]

\* OpenCVProcessor::processFrame that counts the frame before validating
\* it: a plausible slip
processFrame_countfirst(e, inputData, width, height, mode, outputData, bk, bv, fp, ovf, elapsed) ==
    IF \/ ~ e.mInitialized
       \/ inputData.null \/ outputData.null
       \/ width <= 0 \/ height <= 0
    THEN [eng |-> updateStatistics(e, 0), metrics |-> Metrics0(width, height, mode),
          out |-> outputData.bytes, path |-> "none", fault |-> FALSE]
    ELSE Measured(e, Switch(e, bk, bv, fp, ovf, inputData.bytes, width, height, mode,
                            outputData.bytes),
                  width, height, mode, elapsed)

\* OpenCVProcessor::processFrame, opencv_processor.cpp:71-124
\* elapsed is endTime - startTime of the steady clock
processFrame(e, inputData, width, height, mode, outputData, bk, bv, fp, ovf, elapsed) ==
    IF \/ ~ e.mInitialized
       \/ inputData.null \/ outputData.null
       \/ width <= 0 \/ height <= 0
    THEN [eng |-> e, metrics |-> Metrics0(width, height, mode),
          out |-> outputData.bytes, path |-> "none", fault |-> FALSE]
    ELSE Measured(e, Switch(e, bk, bv, fp, ovf, inputData.bytes, width, height, mode,
                            outputData.bytes),
                  width, height, mode, elapsed)

\* OpenCVProcessor::setCannyThresholds, opencv_processor.cpp:229-233
setCannyThresholds(e, lowThreshold, highThreshold) ==
    [e EXCEPT !.mCannyLowThreshold = lowThreshold,
              !.mCannyHighThreshold = highThreshold]

\* "%.2f" of total / frames, in hundredths.  A tie (a third decimal of
\* exactly 5) needs a frame count that is a multiple of 8.
Hundredths(total, frames) == (200 * total + frames) \div (2 * frames)

\* OpenCVProcessor::getStatistics, opencv_processor.cpp:236-250: the fields
\* of the formatted text
getStatistics(e) ==
    [frames |-> e.mTotalFramesProcessed,
     avg    |-> IF e.mTotalFramesProcessed > 0
                THEN Hundredths(e.mTotalProcessingTimeMs, e.mTotalFramesProcessed)
                ELSE 0,
     last   |-> e.mLastProcessingTimeMs,
     opencv |-> IF e.mOpenCVAvailable THEN "Yes" ELSE "No"]

\* OpenCVProcessor::release that leaves the object initialized: a
\* plausible slip
release_noop(e) == e

\* OpenCVProcessor::release, opencv_processor.cpp:253-259
release(e) == IF e.mInitialized THEN [e EXCEPT !.mInitialized = FALSE] ELSE e

----------------------------------------------------------------------------
(* What is recorded of a call *)

\* the fields of the text getStatistics formats, when no text was made
NoText == [frames |-> 0, avg |-> 0, last |-> 0, opencv |-> "none"]

\* the text native-lib.cpp:246 returns without an engine
NotInitializedText == [frames |-> 0, avg |-> 0, last |-> 0, opencv |-> "Processor not initialized"]

NoCall ==
    [op    |-> "none",     \* the function called
     w     |-> 0,          \* processFrame: width, height, mode
     h     |-> 0,
     mode  |-> 0,
     inp   |-> NULLPTR,    \* processFrame: input and output as passed
     out0  |-> NULLPTR,
     out1  |-> <<>>,       \* processFrame: the output memory afterwards
     ok    |-> FALSE,      \* the bool returned, or metrics.success
     time  |-> 0,          \* metrics.processingTimeMs
     jret  |-> 0,          \* the jlong the JNI processFrame returned
     path  |-> "none",     \* processFrame: the path that ran
     bk    |-> "none",     \* processFrame: what the backend did, if called
     start |-> "none",     \* initialize: what activating the backend gave
     made  |-> FALSE,      \* initOpenCV: a new object was constructed
     lo    |-> 0,          \* setCannyThresholds: the arguments
     hi    |-> 0,
     text  |-> NoText,     \* getStatistics: the text
     pre   |-> <<>>]       \* the engine object before the call, if any

\* the request passes the validation of processFrame
Validated(e, req) ==
    /\ e.mInitialized
    /\ ~ req.inp.null /\ ~ req.out.null /\ req.w > 0 /\ req.h > 0

\* width * height * 4 overflows an int
Overflowing(req) == ByteCountOverflows(req.w, req.h)

\* the backend is called by processFrame only on these conditions
BackendCalled(e, req) ==
    /\ e.mInitialized /\ e.mOpenCVAvailable
    /\ ~ req.inp.null /\ ~ req.out.null /\ req.w > 0 /\ req.h > 0
    /\ req.mode \in {MODE_EDGE, MODE_GRAYSCALE}

\* the float arithmetic of the build matters only to a frame that reaches
\* rgbaToGray: on a fallback path
FpChoices(e, req, bk) ==
    IF /\ Validated(e, req) /\ req.mode \in {MODE_EDGE, MODE_GRAYSCALE}
       /\ (BackendCalled(e, req) => bk = "throws")
    THEN FpModes ELSE {"plain"}

\* ghost: what the activation attempt of one initialize call came to
Activation(e, backend, before) ==
    IF e.mInitialized THEN before ELSE IF backend = "ok" THEN "ok" ELSE "failed"

----------------------------------------------------------------------------
(* layer "engine": the caller owns the object proc *)

\* the elapsed times (ms) the steady clock gives one frame
Elapsed == {0, 3}

GhostsKept == UNCHANGED <<hist, lastAct, released, retired>>

Proc_initialize ==
    /\ layer = "engine" /\ alive
    /\ \E backend \in BackendStarts :
        \E r \in {initialize(proc, backend)} :
            /\ proc' = r.eng
            /\ lastAct' = Activation(proc, backend, lastAct)
            /\ released' = FALSE
            /\ call' = [NoCall EXCEPT !.op = "initialize", !.ok = r.ret,
                           !.start = IF proc.mInitialized THEN "none" ELSE backend,
                           !.pre = <<proc>>]
    /\ UNCHANGED <<layer, g_processor, alive, hist, px, yuv, retired>>

Proc_isOpenCVAvailable ==
    /\ layer = "engine" /\ alive
    /\ call' = [NoCall EXCEPT !.op = "isOpenCVAvailable",
                   !.ok = isOpenCVAvailable(proc), !.pre = <<proc>>]
    /\ GhostsKept
    /\ UNCHANGED <<layer, proc, g_processor, alive, px, yuv>>

Proc_processFrame ==
    /\ layer = "engine" /\ alive
    /\ proc.mTotalFramesProcessed < MaxFrames
    /\ \E req \in EngineRequests :
       \E elapsed \in IF Validated(proc, req) THEN Elapsed ELSE {0} :
       \E bk \in IF BackendCalled(proc, req) THEN BackendRuns ELSE {"ok"} :
       \E fp \in FpChoices(proc, req, bk) :
       \E bv \in IF BackendCalled(proc, req) /\ bk = "ok" THEN BackendValues ELSE {255} :
       \E ovf \in IF Validated(proc, req) /\ Overflowing(req)
                  THEN OverflowOutcomes ELSE {"wrap"} :
        \E r \in {processFrame(proc, req.inp, req.w, req.h, req.mode, req.out,
                              bk, bv, fp, ovf, elapsed)} :
            /\ proc' = r.eng
            /\ alive' = ~ r.fault
            /\ hist' = IF r.metrics.success
                       THEN Append(hist, r.metrics.processingTimeMs) ELSE hist
            /\ call' = [NoCall EXCEPT !.op = "processFrame",
                           !.w = req.w, !.h = req.h, !.mode = req.mode,
                           !.inp = req.inp, !.out0 = req.out, !.out1 = r.out,
                           !.ok = r.metrics.success,
                           !.time = r.metrics.processingTimeMs,
                           !.path = r.path,
                           !.bk = IF BackendCalled(proc, req) THEN bk ELSE "none",
                           !.pre = <<proc>>]
    /\ UNCHANGED <<layer, g_processor, lastAct, released, px, yuv, retired>>

Proc_setCannyThresholds ==
    /\ layer = "engine" /\ alive
    /\ \E t \in ThresholdPairs :
        /\ proc' = setCannyThresholds(proc, t[1], t[2])
        /\ call' = [NoCall EXCEPT !.op = "setCannyThresholds",
                       !.lo = t[1], !.hi = t[2], !.pre = <<proc>>]
    /\ GhostsKept
    /\ UNCHANGED <<layer, g_processor, alive, px, yuv>>

Proc_getStatistics ==
    /\ layer = "engine" /\ alive
    /\ call' = [NoCall EXCEPT !.op = "getStatistics",
                   !.text = getStatistics(proc), !.pre = <<proc>>]
    /\ GhostsKept
    /\ UNCHANGED <<layer, proc, g_processor, alive, px, yuv>>

Proc_release ==
    /\ layer = "engine" /\ alive
    /\ proc' = release(proc)
    /\ released' = TRUE
    /\ call' = [NoCall EXCEPT !.op = "release", !.pre = <<proc>>]
    /\ UNCHANGED <<layer, g_processor, alive, hist, lastAct, px, yuv, retired>>

----------------------------------------------------------------------------
(* native-lib.cpp: the JNI functions.  g is the value of g_processor,      *)
(* <<>> for nullptr and <<e>> for a pointer to the object e.  A jbyteArray *)
(* is a pointer record: null, or its bytes.                                *)

\* What `new OpenCVProcessor()` can do
Allocs == {"ok", "bad_alloc"}

\* Java_com_flam_edgedetector_NativeLib_initOpenCV, native-lib.cpp:18-54
JNI_initOpenCV(g, alloc, backend) ==
    IF g # <<>>
    THEN [g |-> g, ret |-> TRUE, made |-> FALSE]
    ELSE IF alloc = "bad_alloc"
    THEN [g |-> <<>>, ret |-> FALSE, made |-> FALSE]      \* caught, lines 46-53
    ELSE LET r == initialize(OpenCVProcessor, backend)
         IN  IF r.ret
             THEN [g |-> <<r.eng>>, ret |-> TRUE, made |-> TRUE]
             ELSE [g |-> <<>>, ret |-> FALSE, made |-> TRUE]

\* Java_com_flam_edgedetector_NativeLib_isOpenCVAvailable, native-lib.cpp:57-66
JNI_isOpenCVAvailable(g) ==
    IF g = <<>> THEN FALSE ELSE isOpenCVAvailable(g[1])

\* What GetByteArrayElements can do: hand out both arrays, or fail on one
Pins == {"ok", "fail"}

\* the result of the JNI processFrame: g_processor, the jlong returned, the
\* output array afterwards, and whether the process was aborted instead of
\* returning
JResult(g, ret, out, ok, time, path, abort) ==
    [g |-> g, ret |-> ret, out |-> out, ok |-> ok, time |-> time,
     path |-> path, abort |-> abort]

\* lines 130-139: the arrays are released (the output copied back) and the
\* metrics r of the engine become the jlong; a fault ends the process
Returned(g, r) ==
    IF r.fault
    THEN JResult(g, 0, r.out, FALSE, 0, r.path, TRUE)
    ELSE JResult(<<r.eng>>,
                 IF r.metrics.success THEN r.metrics.processingTimeMs ELSE -1,
                 r.out, r.metrics.success, r.metrics.processingTimeMs, r.path, FALSE)

\* Java_com_flam_edgedetector_NativeLib_processFrame, native-lib.cpp:69-140
JNI_processFrame(g, inputArray, width, height, mode, outputArray, pin, ovf, bk, bv, fp, elapsed) ==
    IF g = <<>> \/ inputArray.null \/ outputArray.null
    THEN JResult(g, -1, outputArray.bytes, FALSE, 0, "none", FALSE)
    ELSE IF ByteCountOverflows(width, height) /\ ovf = "trap"
    THEN JResult(g, 0, outputArray.bytes, FALSE, 0, "trap", TRUE)
    ELSE IF \/ Len(inputArray.bytes) < ByteCount(width, height)
            \/ Len(outputArray.bytes) < ByteCount(width, height)
            \/ pin = "fail"
    THEN JResult(g, -1, outputArray.bytes, FALSE, 0, "none", FALSE)
    ELSE Returned(g, processFrame(g[1], inputArray, width, height, mode,
                                  outputArray, bk, bv, fp, ovf, elapsed))

\* Java_com_flam_edgedetector_NativeLib_setCannyThresholds, native-lib.cpp:224-237
JNI_setCannyThresholds(g, lowThreshold, highThreshold) ==
    IF g # <<>> THEN <<setCannyThresholds(g[1], lowThreshold, highThreshold)>> ELSE g

\* Java_com_flam_edgedetector_NativeLib_getStatistics, native-lib.cpp:240-251
JNI_getStatistics(g) ==
    IF g = <<>> THEN NotInitializedText ELSE getStatistics(g[1])

\* releaseOpenCV that calls release() and keeps the pointer: a plausible
\* slip
JNI_releaseOpenCV_keep(g) == IF g # <<>> THEN <<release(g[1])>> ELSE g

\* Java_com_flam_edgedetector_NativeLib_releaseOpenCV, native-lib.cpp:254-267
\* (release(), then the destructor, then the pointer is cleared)
JNI_releaseOpenCV(g) == <<>>

\* the length checks of lines 93 and 100 have passed, or were skipped over
\* by a wrapped product
ReachesPin(g, req) ==
    /\ g # <<>> /\ ~ req.inp.null /\ ~ req.out.null
    /\ Len(req.inp.bytes) >= ByteCount(req.w, req.h)
    /\ Len(req.out.bytes) >= ByteCount(req.w, req.h)

----------------------------------------------------------------------------
(* layer "jni": the caller goes through the JNI functions *)

J_initOpenCV ==
    /\ layer = "jni" /\ alive
    /\ \E alloc \in Allocs, backend \in BackendStarts :
        \E r \in {JNI_initOpenCV(g_processor, alloc, backend)} :
            /\ g_processor' = r.g
            /\ hist' = IF r.made THEN <<>> ELSE hist
            /\ lastAct' = IF r.made
                          THEN Activation(OpenCVProcessor, backend, lastAct)
                          ELSE lastAct
            /\ released' = IF r.g # <<>> THEN FALSE ELSE released
            /\ call' = [NoCall EXCEPT !.op = "initOpenCV", !.ok = r.ret,
                           !.made = r.made,
                           !.start = IF r.made THEN backend ELSE "none",
                           !.pre = g_processor]
    /\ UNCHANGED <<layer, proc, alive, px, yuv, retired>>

J_isOpenCVAvailable ==
    /\ layer = "jni" /\ alive
    /\ call' = [NoCall EXCEPT !.op = "isOpenCVAvailable",
                   !.ok = JNI_isOpenCVAvailable(g_processor), !.pre = g_processor]
    /\ GhostsKept
    /\ UNCHANGED <<layer, proc, g_processor, alive, px, yuv>>

J_processFrame ==
    /\ layer = "jni" /\ alive
    /\ g_processor # <<>> => g_processor[1].mTotalFramesProcessed < MaxFrames
    /\ \E req \in JNIRequests :
       LET on == g_processor # <<>> /\ BackendCalled(g_processor[1], req)
           in == g_processor # <<>> /\ Validated(g_processor[1], req)
       IN
       \E ovf \in IF g_processor # <<>> /\ Overflowing(req)
                  THEN OverflowOutcomes ELSE {"wrap"} :
       \E pin \in IF ReachesPin(g_processor, req) THEN Pins ELSE {"ok"} :
       \E elapsed \in IF in /\ pin = "ok" THEN Elapsed ELSE {0} :
       \E bk \in IF on /\ pin = "ok" THEN BackendRuns ELSE {"ok"} :
       \E fp \in IF in /\ pin = "ok" THEN FpChoices(g_processor[1], req, bk) ELSE {"plain"} :
       \E bv \in IF on /\ bk = "ok" THEN BackendValues ELSE {255} :
        \E r \in {JNI_processFrame(g_processor, req.inp, req.w, req.h, req.mode,
                                   req.out, pin, ovf, bk, bv, fp, elapsed)} :
            /\ g_processor' = r.g
            /\ alive' = ~ r.abort
            /\ hist' = IF r.ok THEN Append(hist, r.time) ELSE hist
            /\ call' = [NoCall EXCEPT !.op = "processFrame",
                           !.w = req.w, !.h = req.h, !.mode = req.mode,
                           !.inp = req.inp, !.out0 = req.out, !.out1 = r.out,
                           !.ok = r.ok, !.time = r.time, !.jret = r.ret,
                           !.path = r.path,
                           !.bk = IF on /\ r.path # "none" /\ r.path # "trap"
                                  THEN bk ELSE "none",
                           !.pre = g_processor]
    /\ UNCHANGED <<layer, proc, lastAct, released, px, yuv, retired>>

J_setCannyThresholds ==
    /\ layer = "jni" /\ alive
    /\ \E t \in ThresholdPairs :
        /\ g_processor' = JNI_setCannyThresholds(g_processor, t[1], t[2])
        /\ call' = [NoCall EXCEPT !.op = "setCannyThresholds",
                       !.lo = t[1], !.hi = t[2], !.pre = g_processor]
    /\ GhostsKept
    /\ UNCHANGED <<layer, proc, alive, px, yuv>>

J_getStatistics ==
    /\ layer = "jni" /\ alive
    /\ call' = [NoCall EXCEPT !.op = "getStatistics",
                   !.text = JNI_getStatistics(g_processor), !.pre = g_processor]
    /\ GhostsKept
    /\ UNCHANGED <<layer, proc, g_processor, alive, px, yuv>>

J_releaseOpenCV ==
    /\ layer = "jni" /\ alive
    /\ g_processor' = JNI_releaseOpenCV(g_processor)
    /\ hist' = <<>>
    /\ lastAct' = "none"
    /\ released' = TRUE
    /\ retired' = IF g_processor # <<>>
                  THEN g_processor[1].mTotalFramesProcessed ELSE retired
    /\ call' = [NoCall EXCEPT !.op = "releaseOpenCV", !.pre = g_processor]
    /\ UNCHANGED <<layer, proc, alive, px, yuv>>

----------------------------------------------------------------------------
(* layer "pixel": single frames through the fallback grayscale path *)

\* channel values of the pixels tried
Channels == {0, 4, 8, 20, 28, 32, 80, 128, 255}

Alphas == {7, 255}

\* an engine that was initialized without a backend
FallbackEngine == initialize(OpenCVProcessor, "absent").eng

NoPixel == [op |-> "none", w |-> 0, h |-> 0, inp |-> <<>>, out |-> <<>>,
            ok |-> FALSE, fp |-> "none"]

\* 1x1 frames of every pixel tried, and the 2x2 mid-gray frame
GrayFrames ==
    {[w |-> 1, h |-> 1, bytes |-> <<r, g, b, a>>] :
        r \in Channels, g \in Channels, b \in Channels, a \in Alphas}
    \cup {[w |-> 2, h |-> 2, bytes |-> InputBytes("gray128", 2, 16)]}

\* the frame in px goes through processFrame in mode Grayscale
Pixel_grayscale ==
    /\ layer = "pixel"
    /\ px.op = "input"
    /\ \E r \in {processFrame(FallbackEngine, Ptr(px.inp), px.w, px.h, MODE_GRAYSCALE,
                              Ptr(FreshBytes(Len(px.inp))), "ok", 255, px.fp, "wrap", 0)} :
           px' = [px EXCEPT !.op = "grayscale", !.out = r.out,
                            !.ok = r.metrics.success]
    /\ UNCHANGED <<layer, proc, g_processor, alive, hist, lastAct,
                   released, call, yuv, retired>>

----------------------------------------------------------------------------
(* layer "edge": single frames through the fallback EdgeDetect path *)

\* the pixels the 3x3 frames are made of
EdgePixels ==
    {<<0, 0, 0, 255>>, <<9, 9, 9, 7>>, <<18, 18, 18, 255>>,
     <<255, 0, 0, 0>>, <<255, 255, 255, 255>>}

\* the 3x3 frame that is black but for the pixels a, b (middle row, x = 1,
\* 2) and c, d (bottom row, x = 1, 2)
Frame3x3(a, b, c, d) ==
    LET k == <<0, 0, 0, 255>>
    IN  k \o k \o k \o k \o a \o b \o k \o c \o d

\* the frames tried: the 3x3 frames, frames without interior pixels, and
\* frames with a vertical black/white boundary
EdgeFrames ==
    {[w |-> 3, h |-> 3, bytes |-> Frame3x3(a, b, c, d)] :
        a \in EdgePixels, b \in EdgePixels, c \in EdgePixels, d \in EdgePixels}
    \cup {[w |-> 1, h |-> 1, bytes |-> InputBytes("mix", 1, 4)],
          [w |-> 2, h |-> 5, bytes |-> InputBytes("mix", 2, 40)],
          [w |-> 4, h |-> 3, bytes |-> InputBytes("edge", 4, 48)],
          [w |-> 5, h |-> 4, bytes |-> InputBytes("edge", 5, 80)]}

\* the frame in px goes through processFrame in mode EdgeDetect
Edge_process ==
    /\ layer = "edge"
    /\ px.op = "input"
    /\ \E r \in {processFrame(FallbackEngine, Ptr(px.inp), px.w, px.h, MODE_EDGE,
                              Ptr(FreshBytes(Len(px.inp))), "ok", 255, px.fp, "wrap", 0)} :
           px' = [px EXCEPT !.op = "edge", !.out = r.out, !.ok = r.metrics.success]
    /\ UNCHANGED <<layer, proc, g_processor, alive, hist, lastAct,
                   released, call, yuv, retired>>

----------------------------------------------------------------------------
(* layer "sobel": single calls of ImageUtils::simpleEdgeDetection *)

\* the gray levels tried
GrayLevels == {0, 9, 18, 60, 255}

\* a 3x3 grayscale image, black but for the middle and bottom rows at
\* x = 1, 2
Gray3x3(a, b, c, d) == <<0, 0, 0, 0, a, b, 0, c, d>>

\* the grayscale images tried: the 3x3 images, images without interior
\* pixels, a 4x3 ramp
SobelFrames ==
    {[w |-> 3, h |-> 3, bytes |-> Gray3x3(a, b, c, d)] :
        a \in GrayLevels, b \in GrayLevels, c \in GrayLevels, d \in GrayLevels}
    \cup {[w |-> 1, h |-> 1, bytes |-> <<200>>],
          [w |-> 2, h |-> 3, bytes |-> <<0, 255, 0, 255, 0, 255>>],
          [w |-> 4, h |-> 3, bytes |-> <<0, 7, 14, 21, 0, 7, 14, 21, 0, 7, 14, 21>>]}

\* simpleEdgeDetection runs on the grayscale image in px
Sobel_detect ==
    /\ layer = "sobel"
    /\ px.op = "input"
    /\ px' = [px EXCEPT !.op = "sobel",
                        !.out = simpleEdgeDetection(px.inp, px.w, px.h),
                        !.ok = TRUE]
    /\ UNCHANGED <<layer, proc, g_processor, alive, hist, lastAct,
                   released, call, yuv, retired>>

----------------------------------------------------------------------------
(* native-lib.cpp: yuv420ToRgba.  A jbyte is a signed byte, -128..127.    *)

\* the jbyte that holds the low eight bits of v: static_cast<jbyte>(v)
ToJbyte(v) ==
    LET u == (v + 65536) % 256
    IN  IF u > 127 THEN u - 256 ELSE u

\* b & 0xFF for a jbyte b
And255(b) == IF b < 0 THEN b + 256 ELSE b

\* v >> 8 for an int v: the shift is arithmetic, it keeps the sign
Shr8(v) == IF v >= 0 THEN v \div 256 ELSE -((255 - v) \div 256)

\* v < 0 ? 0 : (v > 255 ? 255 : v), native-lib.cpp:336-338
Clamp255(v) == IF v < 0 THEN 0 ELSE IF v > 255 THEN 255 ELSE v

\* the int values R, G, B of lines 326-333 before clamping
YuvToRgb(Y, U, V) ==
    LET C == Y - 16
        D == U - 128
        E == V - 128
    IN  << Shr8(298 * C + 409 * E + 128),
           Shr8(298 * C - 100 * D - 208 * E + 128),
           Shr8(298 * C + 516 * D + 128) >>

\* the four bytes written for pixel (x, y), lines 319-345; <<>> when an
\* index leaves a plane
YuvPixel(yData, uData, vData, yRowStride, uvRowStride, uvPixelStride, x, y) ==
    LET yIndex  == y * yRowStride + x
        uvIndex == (y \div 2) * uvRowStride + (x \div 2) * uvPixelStride
    IN  IF \/ yIndex < 0 \/ yIndex >= Len(yData)
           \/ uvIndex < 0 \/ uvIndex >= Len(uData) \/ uvIndex >= Len(vData)
        THEN <<>>
        ELSE LET rgb == YuvToRgb(And255(yData[yIndex + 1]), And255(uData[uvIndex + 1]),
                                 And255(vData[uvIndex + 1]))
             IN  << ToJbyte(Clamp255(rgb[1])), ToJbyte(Clamp255(rgb[2])),
                    ToJbyte(Clamp255(rgb[3])), ToJbyte(255) >>

\* yuv420ToRgba that stores the channels without clamping them: a
\* plausible slip
yuv420ToRgba_noclamp(pin, yData, uData, vData, width, height, yRowStride, uvRowStride, uvPixelStride, outData) ==
    IF pin = "fail"
    THEN [out |-> outData, done |-> FALSE, fault |-> FALSE]
    ELSE [out |-> [j \in 1..Len(outData) |->
                     IF j <= 4 * width * height
                     THEN LET i == (j - 1) \div 4
                              rgb == YuvToRgb(And255(yData[(i \div width) * yRowStride + (i % width) + 1]),
                                              And255(uData[((i \div width) \div 2) * uvRowStride
                                                           + ((i % width) \div 2) * uvPixelStride + 1]),
                                              And255(vData[((i \div width) \div 2) * uvRowStride
                                                           + ((i % width) \div 2) * uvPixelStride + 1]))
                          IN  IF (j - 1) % 4 = 3 THEN ToJbyte(255)
                              ELSE ToJbyte(rgb[((j - 1) % 4) + 1])
                     ELSE outData[j]],
          done |-> TRUE, fault |-> FALSE]

\* Java_com_flam_edgedetector_NativeLib_yuv420ToRgba, native-lib.cpp:288-355
\* pin: what GetByteArrayElements does (lines 303-315).  The result is the
\* output array afterwards, whether the loop ran, and whether it read or
\* wrote outside an array (the call then does not return).
yuv420ToRgba(pin, yData, uData, vData, width, height, yRowStride, uvRowStride, uvPixelStride, outData) ==
    IF pin = "fail"
    THEN [out |-> outData, done |-> FALSE, fault |-> FALSE]
    ELSE IF width <= 0 \/ height <= 0
    THEN [out |-> outData, done |-> TRUE, fault |-> FALSE]
    ELSE IF \/ 4 * width * height > Len(outData)
            \/ \E x \in 0..(width - 1), y \in 0..(height - 1) :
                  YuvPixel(yData, uData, vData, yRowStride, uvRowStride,
                           uvPixelStride, x, y) = <<>>
    THEN [out |-> outData, done |-> FALSE, fault |-> TRUE]
    ELSE [out |-> [j \in 1..Len(outData) |->
                     IF j <= 4 * width * height
                     THEN YuvPixel(yData, uData, vData, yRowStride, uvRowStride,
                                   uvPixelStride, ((j - 1) \div 4) % width,
                                   ((j - 1) \div 4) \div width)[((j - 1) % 4) + 1]
                     ELSE outData[j]],
          done |-> TRUE, fault |-> FALSE]

----------------------------------------------------------------------------
(* layer "yuv": single calls of yuv420ToRgba *)

\* layer "yuv" idle
NoPlanes == [op |-> "none"]

\* the sample values tried
YValues == {0, 16, 17, 81, 128, 200, 235, 255}

UVValues == {0, 16, 90, 128, 240, 255}

\* the layouts tried: width, height, yRowStride, uvRowStride, uvPixelStride
\* (planar without padding; padded rows with interleaved chroma)
YuvLayouts == {<<2, 2, 2, 1, 1>>, <<4, 2, 6, 4, 2>>}

\* a luma plane of the layout l around the sample Y: Y and Y + 100 in
\* turn, 99 in the padding
LumaPlane(l, Y) ==
    [k \in 1..(l[2] * l[3]) |->
        LET col == (k - 1) % l[3]
            row == (k - 1) \div l[3]
        IN  ToJbyte(IF col >= l[1] THEN 99
                    ELSE IF (row + col) % 2 = 0 THEN Y ELSE (Y + 100) % 256)]

\* a chroma plane of the layout l around the sample v: v first, then
\* v + 77
ChromaPlane(l, v) ==
    [k \in 1..(((l[2] + 1) \div 2) * l[4]) |->
        ToJbyte(IF k = 1 THEN v ELSE (v + 77) % 256)]

\* an output array as the caller hands it over: every byte 85, one byte
\* more than the frame needs
YuvOut(l) == [j \in 1..(4 * l[1] * l[2] + 1) |-> 85]

\* yuv420ToRgba is called on the planes in yuv
Yuv_convert ==
    /\ layer = "yuv"
    /\ yuv.op = "input"
    /\ \E pin \in Pins :
       \E r \in {yuv420ToRgba(pin, yuv.y, yuv.u, yuv.v, yuv.l[1], yuv.l[2],
                              yuv.l[3], yuv.l[4], yuv.l[5], yuv.out)} :
           /\ yuv' = [yuv EXCEPT !.op = IF r.done THEN "converted" ELSE "returned",
                                 !.out = r.out]
           /\ alive' = ~ r.fault
    /\ UNCHANGED <<layer, proc, g_processor, hist, lastAct, released, call, px,
                   retired>>

----------------------------------------------------------------------------
(* The specifications *)

InitCommon ==
    /\ proc = OpenCVProcessor
    /\ g_processor = <<>>
    /\ alive = TRUE
    /\ hist = <<>>
    /\ lastAct = "none"
    /\ released = FALSE
    /\ call = NoCall
    /\ px = NoPixel
    /\ yuv = NoPlanes
    /\ retired = 0

Init == layer \in {"engine", "jni"} /\ InitCommon

Next ==
    \/ Proc_initialize
    \/ Proc_isOpenCVAvailable
    \/ Proc_processFrame
    \/ Proc_setCannyThresholds
    \/ Proc_getStatistics
    \/ Proc_release
    \/ J_initOpenCV
    \/ J_isOpenCVAvailable
    \/ J_processFrame
    \/ J_setCannyThresholds
    \/ J_getStatistics
    \/ J_releaseOpenCV

Spec == Init /\ [][Next]_vars

InitPixel ==
    /\ layer = "pixel"
    /\ proc = OpenCVProcessor
    /\ g_processor = <<>>
    /\ alive = TRUE
    /\ hist = <<>>
    /\ lastAct = "none"
    /\ released = FALSE
    /\ call = NoCall
    /\ yuv = NoPlanes
    /\ retired = 0
    /\ \E f \in GrayFrames, fp \in FpModes :
          px = [NoPixel EXCEPT !.op = "input", !.w = f.w, !.h = f.h,
                               !.inp = f.bytes, !.fp = fp]

NextPixel == Pixel_grayscale

SpecPixel == InitPixel /\ [][NextPixel]_vars

\* what every specification of a single function starts from
InitIdle ==
    /\ proc = OpenCVProcessor
    /\ g_processor = <<>>
    /\ alive = TRUE
    /\ hist = <<>>
    /\ lastAct = "none"
    /\ released = FALSE
    /\ call = NoCall
    /\ retired = 0

InitEdge ==
    /\ layer = "edge"
    /\ InitIdle
    /\ yuv = NoPlanes
    /\ \E f \in EdgeFrames, fp \in FpModes :
          px = [NoPixel EXCEPT !.op = "input", !.w = f.w, !.h = f.h,
                               !.inp = f.bytes, !.fp = fp]

NextEdge == Edge_process

InitSobel ==
    /\ layer = "sobel"
    /\ InitIdle
    /\ yuv = NoPlanes
    /\ \E f \in SobelFrames :
          px = [NoPixel EXCEPT !.op = "input", !.w = f.w, !.h = f.h, !.inp = f.bytes]

NextSobel == Sobel_detect

SpecSobel == InitSobel /\ [][NextSobel]_vars

InitYuv ==
    /\ layer = "yuv"
    /\ InitIdle
    /\ px = NoPixel
    /\ \E l \in YuvLayouts, Y \in YValues, U \in UVValues, V \in UVValues :
          yuv = [op |-> "input", l |-> l, y |-> LumaPlane(l, Y),
                 u |-> ChromaPlane(l, U), v |-> ChromaPlane(l, V), out |-> YuvOut(l)]

NextYuv == Yuv_convert

SpecYuv == InitYuv /\ [][NextYuv]_vars

SpecEdge == InitEdge /\ [][NextEdge]_vars

----------------------------------------------------------------------------
(* The properties.  Each speaks of the state right after a call: `call`    *)
(* holds the call's arguments and results, call.pre the engine before it.  *)

\* the engine object the caller holds now; <<>> when the JNI pointer is null
Engine == IF layer = "jni" THEN g_processor ELSE <<proc>>

\* the engine-level processFrame was the last call
EngineFrame == layer = "engine" /\ call.op = "processFrame"

\* the statistics fields of an engine object
Stats(e) ==
    <<e.mTotalFramesProcessed, e.mTotalProcessingTimeMs, e.mLastProcessingTimeMs>>

\* the last call was a contract violation: engine Uninitialized, a null
\* buffer, width <= 0 or height <= 0
ContractViolation ==
    \/ ~ call.pre[1].mInitialized
    \/ call.inp.null \/ call.out0.null
    \/ call.w <= 0 \/ call.h <= 0

\* C1: a processFrame call that violates the contract (engine Uninitialized,
\* a null buffer, width <= 0 or height <= 0) returns success = false, writes
\* no byte of the output buffer and leaves frame count, total time and last
\* time as they were.
C1_ViolationRejected ==
    (EngineFrame /\ ContractViolation) =>
        /\ ~ call.ok
        /\ call.out1 = call.out0.bytes
        /\ Stats(proc) = Stats(call.pre[1])
        /\ alive

\* a released engine that has counted frames is given a frame with good
\* buffers and dimensions
C1_Witness ==
    /\ EngineFrame
    /\ ~ call.pre[1].mInitialized
    /\ call.pre[1].mTotalFramesProcessed > 0
    /\ ~ call.inp.null /\ ~ call.out0.null /\ call.w > 0 /\ call.h > 0
    /\ ~ call.ok

\* the array of len bytes is shorter than the exact product width*height*4
ShorterThanFrame(len, width, height) ==
    /\ (width > 0 /\ height > 0) \/ (width < 0 /\ height < 0)
    /\ (len \div 4) \div Abs(width) < Abs(height)

\* C2 (as the claim states it): the JNI processFrame returns -1 and leaves
\* the output bytes unmodified whenever the engine is not initialized, an
\* array is absent, or the input or output array is shorter than the exact
\* product width*height*4.
C2_SentinelWhenShort ==
    (/\ layer = "jni" /\ call.op = "processFrame"
     /\ \/ call.pre = <<>>
        \/ call.inp.null \/ call.out0.null
        \/ ShorterThanFrame(Len(call.inp.bytes), call.w, call.h)
        \/ ShorterThanFrame(Len(call.out0.bytes), call.w, call.h))
    => /\ alive
       /\ call.jret = -1
       /\ call.out1 = call.out0.bytes

RECURSIVE Sum(_)
Sum(s) == IF s = <<>> THEN 0 ELSE Head(s) + Sum(Tail(s))

\* the number a (in hundredths) is total / n to two decimals
TwoDecimals(a, total, n) == 2 * Abs(a * n - 100 * total) <= n

\* C3: the statistics summary reports the number N of processFrame calls on
\* this engine that returned success, the average of their elapsed times
\* (to the two decimals printed; 0 when N = 0) and the elapsed time of the
\* latest of them; calls that failed contribute nothing.
C3_StatisticsOfSuccesses ==
    (call.op = "getStatistics" /\ call.pre # <<>>) =>
        /\ call.text.frames = Len(hist)
        /\ IF Len(hist) = 0
           THEN call.text.avg = 0 /\ call.text.last = 0
           ELSE /\ TwoDecimals(call.text.avg, Sum(hist), Len(hist))
                /\ call.text.last = hist[Len(hist)]

\* the summary is asked for after two successful frames of different
\* elapsed times, the later one taking no time
C3_Witness ==
    /\ call.op = "getStatistics" /\ call.pre # <<>>
    /\ Len(hist) = 2 /\ hist[1] > 0 /\ hist[2] = 0
    /\ call.text.frames = 2

\* C4: a second initialize while the engine is Ready returns success and
\* leaves the same object with state, statistics, thresholds and
\* availability flag as they were; at the JNI boundary no new object is made.
C4_InitializeIdempotent ==
    /\ (layer = "engine" /\ call.op = "initialize" /\ call.pre[1].mInitialized) =>
           call.ok /\ proc = call.pre[1] /\ proc.mInitialized
    /\ (layer = "jni" /\ call.op = "initOpenCV" /\ call.pre # <<>>) =>
           /\ call.ok /\ ~ call.made
           /\ g_processor = call.pre /\ g_processor[1].mInitialized

\* initialize is called on a Ready engine that has counted a frame of
\* non-zero time and holds thresholds other than the defaults
C4_Witness ==
    /\ layer = "engine" /\ call.op = "initialize"
    /\ call.pre[1].mInitialized
    /\ call.pre[1].mTotalFramesProcessed > 0
    /\ call.pre[1].mLastProcessingTimeMs > 0
    /\ call.pre[1].mCannyLowThreshold # 50

\* C5: initialize returns success and leaves the engine Ready whatever the
\* backend does; when the backend did not activate, the availability query
\* is false afterwards and every later EdgeDetect or Grayscale frame that
\* is processed runs the fallback path.
C5_DegradedMode ==
    /\ (layer = "engine" /\ call.op = "initialize") => call.ok /\ proc.mInitialized
    /\ (layer = "jni" /\ call.op = "initOpenCV" /\ call.made) =>
           call.ok /\ g_processor # <<>> /\ g_processor[1].mInitialized
    /\ (call.op \in {"initialize", "initOpenCV"}
            /\ call.start \in {"absent", "empty", "throws"}) =>
           ~ isOpenCVAvailable(Engine[1])
    /\ (lastAct = "failed" /\ call.op = "isOpenCVAvailable") => ~ call.ok
    /\ (lastAct = "failed" /\ call.op = "processFrame" /\ call.ok
            /\ call.mode \in {MODE_EDGE, MODE_GRAYSCALE}) =>
           call.path = "fallback"

\* an engine whose backend threw in initialize, after an earlier life in
\* which it had activated, has processed an EdgeDetect frame
C5_Witness ==
    /\ layer = "engine" /\ lastAct = "failed" /\ released = FALSE
    /\ call.op = "processFrame" /\ call.ok /\ call.mode = MODE_EDGE
    /\ call.path = "fallback"
    /\ proc.mTotalFramesProcessed = MaxFrames

\* C6: release makes a Ready engine Uninitialized and changes nothing else,
\* and nothing at all on an Uninitialized engine; the JNI release returns
\* with the pointer null also when nothing was initialized; after a release
\* every processFrame fails (success = false, -1 at the JNI boundary) until
\* the next successful initialize.
C6_Release ==
    /\ (layer = "engine" /\ call.op = "release") =>
           /\ ~ proc.mInitialized
           /\ proc = [call.pre[1] EXCEPT !.mInitialized = FALSE]
    /\ (layer = "jni" /\ call.op = "releaseOpenCV") => alive /\ g_processor = <<>>
    /\ (released /\ call.op = "processFrame") =>
           /\ ~ call.ok
           /\ call.out1 = call.out0.bytes
           /\ layer = "jni" => call.jret = -1

\* a frame with good buffers is refused by an engine that had counted
\* frames before it was released
C6_Witness ==
    /\ layer = "engine" /\ released
    /\ call.op = "processFrame" /\ ~ call.ok
    /\ ~ call.inp.null /\ ~ call.out0.null /\ call.w > 0 /\ call.h > 0
    /\ proc.mTotalFramesProcessed > 0

\* C7 (as the claim states it): setThresholds on an Uninitialized engine
\* leaves the stored low and high thresholds unchanged.
C7_ThresholdsKeptWhileUninitialized ==
    /\ (layer = "engine" /\ call.op = "setCannyThresholds"
            /\ ~ call.pre[1].mInitialized) =>
           /\ proc.mCannyLowThreshold = call.pre[1].mCannyLowThreshold
           /\ proc.mCannyHighThreshold = call.pre[1].mCannyHighThreshold
    /\ (layer = "jni" /\ call.op = "setCannyThresholds" /\ call.pre = <<>>) =>
           g_processor = <<>>

\* the output of the fallback path of the call's mode on the call's frame,
\* under the float arithmetic fp
FallbackOutput(fp) ==
    IF call.mode = MODE_EDGE
    THEN applyCannyEdgeFallback(fp, call.inp.bytes, call.w, call.h, call.out0.bytes).out
    ELSE convertToGrayscaleFallback("wrap", fp, call.inp.bytes, call.w, call.h,
                                    call.out0.bytes).out

\* C8: when the backend throws inside processFrame, the call runs the
\* fallback path, returns success with the fallback's output, counts the
\* frame once and leaves the availability flag set.
C8_BackendFailureAbsorbed ==
    (EngineFrame /\ call.bk = "throws") =>
        /\ call.ok
        /\ call.path = "fallback"
        /\ \E fp \in FpModes : call.out1 = FallbackOutput(fp)
        /\ proc.mTotalFramesProcessed = call.pre[1].mTotalFramesProcessed + 1
        /\ proc.mTotalProcessingTimeMs = call.pre[1].mTotalProcessingTimeMs + call.time
        /\ proc.mLastProcessingTimeMs = call.time
        /\ proc.mOpenCVAvailable /\ call.pre[1].mOpenCVAvailable

\* the backend threw on the EdgeDetect of the 3x3 frame with an edge; the
\* output has the edge pixel in its middle
C8_Witness ==
    /\ EngineFrame /\ call.bk = "throws"
    /\ call.mode = MODE_EDGE /\ call.w = 3 /\ call.h = 3
    /\ call.out1[17] = 255 /\ call.out1[1] = 0
    /\ call.time > 0

\* C9 (as the claim states it): on a Ready engine with valid width, height
\* and buffers, Passthrough and every mode value other than 0, 1, 2 return
\* success and make the first width*height*4 output bytes equal to the
\* input bytes.  (Of a buffer the model follows in part, the part.)
C9_PassthroughCopies ==
    (/\ EngineFrame /\ ~ ContractViolation
     /\ call.mode \notin {MODE_EDGE, MODE_GRAYSCALE})
    => /\ call.ok
       /\ \A j \in 1..Len(call.out1) :
              (j - 1) \div 4 < call.w * call.h => call.out1[j] = call.inp.bytes[j]

\* floor(0.299*r + 0.587*g + 0.114*b) in exact arithmetic
ExactLuma(r, g, b) == (299 * r + 587 * g + 114 * b) \div 1000

\* C10 (as the claim states it): Grayscale on the fallback path writes
\* R = G = B = floor(0.299*R0 + 0.587*G0 + 0.114*B0) and alpha = 255 for
\* every pixel of the frame.
C10_GrayscaleIsFloor ==
    px.op = "grayscale" =>
        /\ px.ok
        /\ \A i \in 0..(px.w * px.h - 1) :
              LET y == ExactLuma(px.inp[4 * i + 1], px.inp[4 * i + 2], px.inp[4 * i + 3])
              IN  /\ px.out[4 * i + 1] = y
                  /\ px.out[4 * i + 2] = y
                  /\ px.out[4 * i + 3] = y
                  /\ px.out[4 * i + 4] = 255

\* C11: for every frame, the output of EdgeDetect on the fallback path has
\* R = G = B in every pixel, that value being 0 or 255, and alpha = 255.
C11_EdgeOutputBinary ==
    px.op = "edge" =>
        /\ px.ok
        /\ \A i \in 0..(px.w * px.h - 1) :
              /\ px.out[4 * i + 1] \in {0, 255}
              /\ px.out[4 * i + 2] = px.out[4 * i + 1]
              /\ px.out[4 * i + 3] = px.out[4 * i + 1]
              /\ px.out[4 * i + 4] = 255

\* the 5x4 frame with a boundary has come out with an interior edge pixel
\* next to an interior pixel without edge
C11_Witness ==
    /\ px.op = "edge" /\ px.w = 5 /\ px.h = 4
    /\ px.out[4 * 6 + 1] = 0
    /\ px.out[4 * 7 + 1] = 255

\* the R, G, B bytes of pixel (x, y) of the last call's input are all v
InputIs(x, y, v) ==
    \A c \in 1..3 : call.inp.bytes[4 * (y * call.w + x) + c] = v

\* the last call's input is black in the columns left of column b and
\* white from column b on
BoundaryAt(b) ==
    \A x \in 0..(call.w - 1), y \in 0..(call.h - 1) :
        InputIs(x, y, IF x < b THEN 0 ELSE 255)

\* the last call was EdgeDetect on the fallback path, with thresholds
\* (10, 10) in force, on a frame of width >= 3 with the boundary at b
EdgeScenario(b) ==
    /\ EngineFrame /\ ~ ContractViolation
    /\ call.mode = MODE_EDGE /\ call.path = "fallback"
    /\ call.pre[1].mCannyLowThreshold = 10 /\ call.pre[1].mCannyHighThreshold = 10
    /\ call.w >= 3
    /\ b \in 1..(call.w - 1)
    /\ BoundaryAt(b)

\* the R byte the last call wrote for pixel (x, y)
EdgeOut(x, y) == call.out1[4 * (y * call.w + x) + 1]

\* C12 (as the claim states it): after setThresholds(10, 10), EdgeDetect on
\* a black/white vertical boundary image gives 255 at every pixel of the
\* two boundary columns and 0 at every other pixel.
C12_BoundaryColumns ==
    (EngineFrame /\ call.mode = MODE_EDGE) =>
    \A b \in 1..(call.w - 1) :
        EdgeScenario(b) =>
            /\ call.ok
            /\ \A x \in 0..(call.w - 1), y \in 0..(call.h - 1) :
                  EdgeOut(x, y) = IF x \in {b - 1, b} THEN 255 ELSE 0

\* C12 (amended): in that scenario, on the fallback path, the output is 255
\* at every pixel of the two boundary columns that is not on the 1-pixel
\* border ring of the image, and 0 at every other pixel.
C12_BoundaryColumnsInside ==
    (EngineFrame /\ call.mode = MODE_EDGE) =>
    \A b \in 1..(call.w - 1) :
        EdgeScenario(b) =>
            /\ call.ok
            /\ \A x \in 0..(call.w - 1), y \in 0..(call.h - 1) :
                  EdgeOut(x, y) =
                      IF /\ x \in {b - 1, b}
                         /\ 1 <= x /\ x <= call.w - 2
                         /\ 1 <= y /\ y <= call.h - 2
                      THEN 255 ELSE 0

\* the scenario has happened on the 5x4 frame, whose boundary columns both
\* have pixels inside the border ring
C12_Witness ==
    /\ EdgeScenario(3)
    /\ call.w = 5 /\ call.h = 4
    /\ EdgeOut(2, 1) = 255 /\ EdgeOut(3, 2) = 255
    /\ EdgeOut(3, 0) = 0 /\ EdgeOut(1, 1) = 0

\* the sample a plane of the last conversion holds at index k (0-based)
Sample(plane, k) == And255(plane[k + 1])

\* the clamp to [0, 255] of the floor of v / 256
ClampedShift(v) ==
    LET q == v \div 256
    IN  IF q < 0 THEN 0 ELSE IF q > 255 THEN 255 ELSE q

\* the byte (0..255) the last conversion wrote for channel c of pixel (x, y)
Written(x, y, c) == And255(yuv.out[4 * (y * yuv.l[1] + x) + c])

\* C13: the conversion writes for each pixel the clamp to [0, 255] of
\* (298C+409E+128)>>8, (298C-100D-208E+128)>>8, (298C+516D+128)>>8 with
\* C = Y-16, D = U-128, E = V-128, and alpha 255; a pixel with Y = 235,
\* U = V = 128 comes out (255, 255, 255, 255).
C13_YuvConversion ==
    yuv.op = "converted" =>
        \A x \in 0..(yuv.l[1] - 1), y \in 0..(yuv.l[2] - 1) :
            LET Y == Sample(yuv.y, y * yuv.l[3] + x)
                U == Sample(yuv.u, (y \div 2) * yuv.l[4] + (x \div 2) * yuv.l[5])
                V == Sample(yuv.v, (y \div 2) * yuv.l[4] + (x \div 2) * yuv.l[5])
                C == Y - 16
                D == U - 128
                E == V - 128
            IN  /\ Written(x, y, 1) = ClampedShift(298 * C + 409 * E + 128)
                /\ Written(x, y, 2) = ClampedShift(298 * C - 100 * D - 208 * E + 128)
                /\ Written(x, y, 3) = ClampedShift(298 * C + 516 * D + 128)
                /\ Written(x, y, 4) = 255
                /\ (Y = 235 /\ U = 128 /\ V = 128) =>
                       \A c \in 1..4 : Written(x, y, c) = 255

\* a padded frame was converted whose first pixel is white (235, 128, 128)
\* and whose third pixel (235, 205, 205) has R and B clamped from above
\* and G = 162 inside the range
C13_Witness ==
    /\ yuv.op = "converted" /\ yuv.l[3] = 6
    /\ Sample(yuv.y, 0) = 235 /\ Sample(yuv.u, 0) = 128 /\ Sample(yuv.v, 0) = 128
    /\ Written(0, 0, 1) = 255 /\ Written(0, 0, 3) = 255
    /\ Sample(yuv.u, 2) = 205 /\ Sample(yuv.v, 2) = 205
    /\ Written(2, 0, 1) = 255 /\ Written(2, 0, 2) = 162 /\ Written(2, 0, 3) = 255

\* sqrt(v) rounded to the nearest integer
RoundSqrt(v) ==
    CHOOSE k \in 0..1500 :
        /\ k = 0 \/ (2 * k - 1) * (2 * k - 1) <= 4 * v
        /\ 4 * v < (2 * k + 1) * (2 * k + 1)

\* C14: at every interior pixel the Sobel edge map is 255 exactly when
\* min(255, round(sqrt(gx^2 + gy^2))) > 50 and 0 otherwise; every pixel of
\* the border ring is 0.  The code truncates the square root instead of
\* rounding it: this does not hold.
C14_SobelRounds ==
    px.op = "sobel" =>
        \A x \in 0..(px.w - 1), y \in 0..(px.h - 1) :
            px.out[y * px.w + x + 1] =
                IF 1 <= x /\ x <= px.w - 2 /\ 1 <= y /\ y <= px.h - 2
                THEN LET gx == SobelAt(sobelX, px.inp, px.w, x, y)
                         gy == SobelAt(sobelY, px.inp, px.w, x, y)
                         m  == RoundSqrt(gx * gx + gy * gy)
                     IN  IF (IF m > 255 THEN 255 ELSE m) > 50 THEN 255 ELSE 0
                ELSE 0

\* C15: after any sequence of boundary calls the process-wide engine
\* pointer is null or refers to an engine in state Ready; and an engine
\* made by initOpenCV, after a release as at any other time, starts with
\* frame count 0 and reports 0 frames.
C15_PointerNullOrReady ==
    layer = "jni" =>
        /\ g_processor = <<>> \/ g_processor[1].mInitialized
        /\ (call.op = "initOpenCV" /\ call.made /\ call.ok) =>
               /\ g_processor # <<>>
               /\ Stats(g_processor[1]) = <<0, 0, 0>>
               /\ JNI_getStatistics(g_processor).frames = 0

\* an engine that had counted frames was released, and initOpenCV then made
\* a new one, which is Ready
C15_Witness ==
    /\ layer = "jni" /\ alive
    /\ retired > 0
    /\ call.op = "initOpenCV" /\ call.made /\ call.ok /\ call.pre = <<>>
    /\ g_processor # <<>> /\ g_processor[1].mInitialized
    /\ g_processor[1].mTotalFramesProcessed = 0

=============================================================================
